---- MODULE Spec2Model ----
(***************************************************************************)
(* The retrieval-augmented-answer pipeline of src/mongo.js: the four stage *)
(* functions fetchContent, segmentText, generateEmbeddings and             *)
(* generateGeminiResponse, and main, which drives them in order.           *)
(*                                                                         *)
(* Two specifications share the stage functions' steps:                    *)
(*   Spec       one run of main (the prompts and the four services answer  *)
(*              nondeterministically);                                     *)
(*   StageSpec  one stage function called directly with any argument of a  *)
(*              bounded set of JavaScript values.                          *)
(***************************************************************************)
EXTENDS Integers, Sequences, FiniteSets, TLC

VARIABLES
    pc,               \* main: the line main is suspended at, or how it ended
    url,              \* main: const url (line 177)
    fetchedContent,   \* main: const fetchedContent (line 178)
    segmentedContent, \* main: const segmentedContent (line 187)
    embeddings,       \* main: const embeddings (line 197)
    geminiResponse,   \* main: const geminiResponse (line 202)
    rlOpen,           \* main: the readline interface of line 173 is open
    fn,               \* the stage function being executed ("none" before any)
    arg,              \* its argument (url, content, inputs or document)
    fpc,              \* its position: "entry", "await", "returned", "thrown"
    eff,              \* its parameter after the prompt / the normalisation
    ret,              \* the value it returned
    resp,             \* the response of its external call
    req,              \* the payload of its external call
    inflight,         \* the external services with a call in flight
    calls,            \* how many calls each external service has received
    prompts,          \* rl.question calls made inside the current stage function
    invoked,          \* main: how often each stage function was invoked
    log               \* the console.log lines, in order

vars == <<pc, url, fetchedContent, segmentedContent, embeddings, geminiResponse,
          rlOpen, fn, arg, fpc, eff, ret, resp, req, inflight, calls, prompts,
          invoked, log>>

mainVars == <<pc, url, fetchedContent, segmentedContent, embeddings,
              geminiResponse, rlOpen, invoked>>

(***************************************************************************)
(* Bounds.                                                                 *)
(***************************************************************************)
MaxUrlLen == 4      \* urls are the strings over UrlAlphabet up to this length
MaxTextLen == 1     \* response bodies are the strings over TextAlphabet up to this length

UrlAlphabet == {"h", "t", "p"}
TextAlphabet == {" ", "a", "<p>"}    \* "<p>" stands for a piece of markup

RECURSIVE Strings(_, _)
Strings(alphabet, n) ==
    IF n = 0 THEN {<<>>}
    ELSE LET shorter == Strings(alphabet, n - 1)
         IN  shorter \cup {Append(s, c) : s \in shorter, c \in alphabet}

(***************************************************************************)
(* JavaScript values.  t is the type tag; s the characters of a string, or *)
(* of a number's decimal form, or of an object's text field; x says which  *)
(* field an object carries; a holds the elements of an array (elements are *)
(* values without the a field).                                            *)
(***************************************************************************)
Elem(t, s, x) == [t |-> t, s |-> s, x |-> x]
Val(t, s, x, a) == [t |-> t, s |-> s, x |-> x, a |-> a]

Undefined == Val("undefined", <<>>, "na", <<>>)
Null == Val("null", <<>>, "na", <<>>)
False == Val("false", <<>>, "na", <<>>)
True == Val("true", <<>>, "na", <<>>)
Num(digits) == Val("num", digits, "na", <<>>)
Str(s) == Val("str", s, "na", <<>>)
Arr(items) == Val("arr", <<>>, "na", items)
EmptyObj == Val("obj", <<>>, "none", <<>>)              \* {}
ChunksObj(s) == Val("obj", s, "chunks", <<>>)           \* {"chunks":["s"]}
TwoChunksObj(s) == Val("obj", s, "chunks2", <<>>)       \* {"chunks":["s","s"]}
TextObj(s) == Val("obj", s, "str", <<>>)                \* {"text":"s"}
TextNumObj(digits) == Val("obj", digits, "num", <<>>)   \* {"text":5}
TextNullObj == Val("obj", <<>>, "null", <<>>)           \* {"text":null}

AsElem(v) == Elem(v.t, v.s, v.x)
AsVal(e) == Val(e.t, e.s, e.x, <<>>)

IsString(v) == v.t = "str"

\* JavaScript truthiness: !v
Falsy(v) ==
    \/ v.t \in {"undefined", "null", "false"}
    \/ v.t = "num" /\ v.s = <<"0">>
    \/ v.t = "str" /\ v.s = <<>>

\* item.text of an object (undefined when the object has no such field)
TextField(v) ==
    IF v.t = "obj" /\ v.x = "str" THEN Str(v.s)
    ELSE IF v.t = "obj" /\ v.x = "num" THEN Num(v.s)
    ELSE IF v.t = "obj" /\ v.x = "null" THEN Null
    ELSE Undefined

Quote(s) == <<"\"">> \o s \o <<"\"">>

RECURSIVE JoinElems(_)

\* JSON.stringify of a value without the a field, as characters
StringifyElem(e) ==
    CASE e.t = "null" -> <<"n", "u", "l", "l">>
      [] e.t = "true" -> <<"t", "r", "u", "e">>
      [] e.t = "false" -> <<"f", "a", "l", "s", "e">>
      [] e.t = "num" -> e.s
      [] e.t = "str" -> Quote(e.s)
      [] e.t = "arr" -> <<"[", "]">>
      [] e.t = "obj" /\ e.x = "none" -> <<"{", "}">>
      [] e.t = "obj" /\ e.x = "chunks" ->
            <<"{">> \o Quote(<<"c", "h", "u", "n", "k", "s">>) \o <<":", "[">>
                \o Quote(e.s) \o <<"]", "}">>
      [] e.t = "obj" /\ e.x = "chunks2" ->
            <<"{">> \o Quote(<<"c", "h", "u", "n", "k", "s">>) \o <<":", "[">>
                \o Quote(e.s) \o <<",">> \o Quote(e.s) \o <<"]", "}">>
      [] e.t = "obj" /\ e.x = "str" ->
            <<"{">> \o Quote(<<"t", "e", "x", "t">>) \o <<":">> \o Quote(e.s) \o <<"}">>
      [] e.t = "obj" /\ e.x = "num" ->
            <<"{">> \o Quote(<<"t", "e", "x", "t">>) \o <<":">> \o e.s \o <<"}">>
      [] e.t = "obj" /\ e.x = "null" ->
            <<"{">> \o Quote(<<"t", "e", "x", "t">>) \o <<":", "n", "u", "l", "l">> \o <<"}">>
      [] OTHER -> <<"n", "u", "l", "l">>     \* undefined inside an array

JoinElems(items) ==
    IF items = <<>> THEN <<>>
    ELSE IF Len(items) = 1 THEN StringifyElem(items[1])
    ELSE StringifyElem(items[1]) \o <<",">> \o JoinElems(Tail(items))

\* JSON.stringify(v): a string, or undefined for undefined
Stringify(v) ==
    IF v.t = "undefined" THEN Undefined
    ELSE IF v.t = "arr" THEN Str(<<"[">> \o JoinElems(v.a) \o <<"]">>)
    ELSE Str(StringifyElem(AsElem(v)))

IsSpace(c) == c = " "

RECURSIVE TrimStart(_)
TrimStart(s) ==
    IF s # <<>> /\ IsSpace(Head(s)) THEN TrimStart(Tail(s)) ELSE s

RECURSIVE TrimEnd(_)
TrimEnd(s) ==
    IF s # <<>> /\ IsSpace(s[Len(s)]) THEN TrimEnd(SubSeq(s, 1, Len(s) - 1)) ELSE s

\* String.prototype.trim
Trim(s) == TrimEnd(TrimStart(s))

\* String.prototype.startsWith
StartsWith(s, prefix) ==
    /\ Len(s) >= Len(prefix)
    /\ SubSeq(s, 1, Len(prefix)) = prefix


(***************************************************************************)
(* The values the prompts and the external services can produce.           *)
(***************************************************************************)
MaxQuestionLen == 1 \* questions are the strings over {"a"} up to this length
MaxInputs == 2      \* direct calls of generateEmbeddings pass up to this many inputs

Urls == Strings(UrlAlphabet, MaxUrlLen)
Questions == Strings({"a"}, MaxQuestionLen)
TextBodies == Strings(TextAlphabet, MaxTextLen)
PlainStrings == Strings({" ", "a"}, MaxTextLen)

\* the values a JSON response body can stand for
JsonValues ==
    {Null, False, True, Num(<<"0">>), Num(<<"5">>), Arr(<<>>), EmptyObj,
     ChunksObj(<<"a">>), TwoChunksObj(<<"a">>), TextNumObj(<<"5">>), TextNullObj}
        \cup {Str(s) : s \in PlainStrings}
        \cup {TextObj(s) : s \in PlainStrings}

JsonBodies == {Stringify(v).s : v \in JsonValues}
Bodies == JsonBodies \cup TextBodies

\* JSON.parse / response.json(): the value, or a SyntaxError
ParseJson(text) ==
    IF \E v \in JsonValues : Stringify(v).s = text
    THEN [ok |-> TRUE, v |-> CHOOSE v \in JsonValues : Stringify(v).s = text]
    ELSE [ok |-> FALSE, v |-> Undefined]

IsMarkup(c) == c = "<p>"

\* new JSDOM(text).window.document.body.textContent: the text without the markup
BodyTextContent(text) == SelectSeq(text, LAMBDA c : ~IsMarkup(c))

Statuses == {200, 500}
IsHttpError(status) == status >= 400

NoResp == [kind |-> "none", status |-> 0, ctype |-> "na", body |-> <<>>]
NetworkError == [kind |-> "error", status |-> 0, ctype |-> "na", body |-> <<>>]
Response(status, ctype, body) ==
    [kind |-> "response", status |-> status, ctype |-> ctype, body |-> body]

\* what the content-extraction service can answer (ctype "missing": no header)
FetchResponses ==
    {NetworkError}
        \cup {Response(st, ct, b) :
                st \in Statuses, ct \in {"missing", "json", "html", "other"}, b \in Bodies}

\* what the segmentation service can answer (its content type is never read)
SegmentResponses ==
    {NetworkError} \cup {Response(st, "json", b) : st \in Statuses, b \in Bodies}

\* what the embedding service can answer
EmbeddingBodies == {Stringify(EmptyObj).s, Stringify(Null).s, <<"a">>}
\* (the body of an error response is never read: axios rejects on the status)
EmbedResponses ==
    {NetworkError, Response(500, "json", <<>>)}
        \cup {Response(200, "json", b) : b \in EmbeddingBodies}

\* what the generative service can answer: an error, or the text of an answer
GeminiResponses ==
    {NetworkError, Response(500, "other", <<>>)}
        \cup {Response(200, "other", b) : b \in PlainStrings}

Stages == {"fetchContent", "segmentText", "generateEmbeddings", "generateGeminiResponse"}
Services == {"extract", "segment", "embed", "gemini"}

\* a parameter with its default value (function f(p = default))
Param(args, i, default) ==
    IF Len(args) < i \/ args[i] = Undefined THEN default ELSE args[i]


(***************************************************************************)
(* The stage functions.  Each is two steps: the code up to its external    *)
(* call (or up to its early return), and the code after the call resolves. *)
(***************************************************************************)
HttpPrefix == <<"h", "t", "t", "p">>

\* the lines a prompt inside a stage function reads: only when the value is falsy
PromptedFor(v, lines) == IF Falsy(v) THEN lines ELSE {<<>>}

\* the scheme check accepting every url
UrlAcceptedAny(s) == TRUE

\* line 62: url.startsWith("http")
UrlAccepted(s) == StartsWith(s, HttpPrefix)

\* fetchContent, lines 53-72: the prompt for a missing url, the scheme check, the GET
FetchContentEnter ==
    /\ fn = "fetchContent" /\ fpc = "entry"
    /\ LET given == Param(arg, 1, Null)
       IN  \E line \in PromptedFor(given, Urls) :
             LET u == IF Falsy(given) THEN Str(line) ELSE given
             IN  /\ eff' = u
                 /\ prompts' = IF Falsy(given) THEN prompts + 1 ELSE prompts
                 /\ IF ~IsString(u)
                    THEN \* url.startsWith is not a function: a TypeError outside the try
                         /\ fpc' = "thrown"
                         /\ UNCHANGED <<ret, req, inflight, calls, log>>
                    ELSE IF ~UrlAccepted(u.s)
                    THEN /\ fpc' = "returned"
                         /\ ret' = Null
                         /\ log' = Append(log, "Invalid URL.")
                         /\ UNCHANGED <<req, inflight, calls>>
                    ELSE /\ fpc' = "await"
                         /\ req' = u
                         /\ inflight' = inflight \cup {"extract"}
                         /\ calls' = [calls EXCEPT !["extract"] = @ + 1]
                         /\ log' = Append(log, "Fetching content from:")
                         /\ UNCHANGED ret
    /\ UNCHANGED <<fn, arg, resp>>
    /\ UNCHANGED mainVars

\* the branching without its text/html case
ParseBranchNoHtml(ctype) == IF ctype = "json" THEN "json" ELSE "text"

\* lines 73-83: the parsing branch the declared content type selects
ParseBranch(ctype) ==
    IF ctype = "json" THEN "json" ELSE IF ctype = "html" THEN "html" ELSE "text"

\* lines 73-88: the data fetchContent makes of a response, ok = FALSE when the
\* code lands in its catch (no response, no content-type header, a body that
\* does not parse)
FetchedData(r) ==
    IF r.kind = "error" \/ r.ctype = "missing" THEN [ok |-> FALSE, v |-> Undefined]
    ELSE IF ParseBranch(r.ctype) = "json" THEN ParseJson(r.body)
    ELSE IF ParseBranch(r.ctype) = "html" THEN [ok |-> TRUE, v |-> Str(BodyTextContent(r.body))]
    ELSE [ok |-> TRUE, v |-> Str(r.body)]

\* fetchContent, lines 69-89: the response arrives and is parsed by content type
FetchContentResolve ==
    /\ fn = "fetchContent" /\ fpc = "await"
    /\ \E r \in FetchResponses :
          /\ resp' = r
          /\ IF FetchedData(r).ok
             THEN /\ ret' = FetchedData(r).v
                  /\ log' = Append(log, "Content fetched successfully.")
             ELSE /\ ret' = Null
                  /\ log' = Append(log, "Error fetching content:")
    /\ inflight' = inflight \ {"extract"}
    /\ fpc' = "returned"
    /\ UNCHANGED <<fn, arg, eff, req, calls, prompts>>
    /\ UNCHANGED mainVars

\* lines 101-103: non-string content is serialized
ContentString(v) == IF IsString(v) THEN v ELSE Stringify(v)

\* the blank check without the trim
IsBlankUntrimmed(s) == s = <<>>

\* line 104: !content.trim()
IsBlank(s) == Trim(s) = <<>>

\* segmentText, lines 92-121: the prompt for missing content, the serialization,
\* the blank check, the POST
SegmentTextEnter ==
    /\ fn = "segmentText" /\ fpc = "entry"
    /\ LET given == Param(arg, 1, Null)
       IN  \E line \in PromptedFor(given, TextBodies) :
             LET c == ContentString(IF Falsy(given) THEN Str(line) ELSE given)
             IN  /\ eff' = c
                 /\ prompts' = IF Falsy(given) THEN prompts + 1 ELSE prompts
                 /\ IF ~IsString(c)
                    THEN \* JSON.stringify gave undefined: content.trim throws outside the try
                         /\ fpc' = "thrown"
                         /\ UNCHANGED <<ret, req, inflight, calls, log>>
                    ELSE IF IsBlank(c.s)
                    THEN /\ fpc' = "returned"
                         /\ ret' = Null
                         /\ log' = Append(log, "No text provided.")
                         /\ UNCHANGED <<req, inflight, calls>>
                    ELSE /\ fpc' = "await"
                         /\ req' = c
                         /\ inflight' = inflight \cup {"segment"}
                         /\ calls' = [calls EXCEPT !["segment"] = @ + 1]
                         /\ log' = Append(log, "Attempting to segment text...")
                         /\ UNCHANGED ret
    /\ UNCHANGED <<fn, arg, resp>>
    /\ UNCHANGED mainVars

\* lines 117-127: the data segmentText makes of a response
SegmentedData(r) ==
    IF r.kind = "error" THEN [ok |-> FALSE, v |-> Undefined] ELSE ParseJson(r.body)

\* segmentText, lines 117-128: the response arrives and is parsed as JSON
SegmentTextResolve ==
    /\ fn = "segmentText" /\ fpc = "await"
    /\ \E r \in SegmentResponses :
          /\ resp' = r
          /\ IF SegmentedData(r).ok
             THEN /\ ret' = SegmentedData(r).v
                  /\ log' = Append(log, "Text segmentation successful.")
             ELSE /\ ret' = Null
                  /\ log' = Append(log, "Error segmenting text:")
    /\ inflight' = inflight \ {"segment"}
    /\ fpc' = "returned"
    /\ UNCHANGED <<fn, arg, eff, req, calls, prompts>>
    /\ UNCHANGED mainVars


EmbeddingCap == 1000    \* substring(0, 1000), lines 138-142

\* a cap that keeps one character too many
Substring0Inclusive(s, n) == SubSeq(s, 1, IF Len(s) < n + 1 THEN Len(s) ELSE n + 1)

\* String.prototype.substring(0, n)
Substring0(s, n) == SubSeq(s, 1, IF Len(s) < n THEN Len(s) ELSE n)

\* the check of line 132 without the length test
InputsMissingNullOnly(inputs) == Falsy(inputs)

\* line 132: !inputs || inputs.length === 0
InputsMissing(inputs) ==
    Falsy(inputs) \/ (inputs.t = "arr" /\ Len(inputs.a) = 0)

\* line 139: typeof item === 'object' && item.text, for an item that is not null
HasText(item) == item.t = "obj" /\ ~Falsy(TextField(item))

\* lines 137-143: the item makes the map callback throw a TypeError: null.text,
\* substring of a text that is no string, substring of JSON.stringify(undefined)
NormalizeThrows(item) ==
    IF item.t = "str" THEN FALSE
    ELSE IF item.t = "null" THEN TRUE
    ELSE IF HasText(item) THEN ~IsString(TextField(item))
    ELSE ~IsString(Stringify(AsVal(item)))

\* lines 137-143: string -> text-bearing object -> anything else, each truncated
NormalizeItem(item) ==
    IF item.t = "str" THEN Substring0(item.s, EmbeddingCap)
    ELSE IF HasText(item) THEN Substring0(TextField(item).s, EmbeddingCap)
    ELSE Substring0(Stringify(AsVal(item)).s, EmbeddingCap)

\* the normalized inputs in reverse order
StringInputsReversed(items) ==
    [i \in 1..Len(items) |-> NormalizeItem(items[Len(items) + 1 - i])]

\* lines 136-144: inputs.map(...)
StringInputs(items) == [i \in 1..Len(items) |-> NormalizeItem(items[i])]

\* line 149: stringInputs.map(text => ({ text }))
EmbeddingRequest(texts) == Arr([i \in 1..Len(texts) |-> AsElem(TextObj(texts[i]))])

\* generateEmbeddings, lines 131-153: the empty-input check, the normalisation, the POST
GenerateEmbeddingsEnter ==
    /\ fn = "generateEmbeddings" /\ fpc = "entry"
    /\ LET inputs == Param(arg, 1, Arr(<<>>))
       IN  IF InputsMissing(inputs)
           THEN /\ fpc' = "returned"
                /\ ret' = Null
                /\ log' = Append(log, "No inputs provided for embedding generation.")
                /\ UNCHANGED <<eff, req, inflight, calls>>
           ELSE IF inputs.t # "arr" \/ \E i \in 1..Len(inputs.a) : NormalizeThrows(inputs.a[i])
           THEN \* inputs.map is not a function, or the callback throws: outside the try
                /\ fpc' = "thrown"
                /\ UNCHANGED <<eff, ret, req, inflight, calls, log>>
           ELSE /\ fpc' = "await"
                /\ eff' = Arr([i \in 1..Len(inputs.a) |->
                                  AsElem(Str(StringInputs(inputs.a)[i]))])
                /\ req' = EmbeddingRequest(StringInputs(inputs.a))
                /\ inflight' = inflight \cup {"embed"}
                /\ calls' = [calls EXCEPT !["embed"] = @ + 1]
                /\ log' = Append(log, "Attempting to generate embeddings...")
                /\ UNCHANGED ret
    /\ UNCHANGED <<fn, arg, resp, prompts>>
    /\ UNCHANGED mainVars

\* line 153-154: axios rejects on a network error and on a status outside 2xx;
\* response.data is the parsed body, or the raw text when it does not parse
AxiosData(r) ==
    IF r.kind = "error" \/ IsHttpError(r.status) THEN [ok |-> FALSE, v |-> Undefined]
    ELSE IF ParseJson(r.body).ok THEN ParseJson(r.body)
    ELSE [ok |-> TRUE, v |-> Str(r.body)]

\* generateEmbeddings, lines 153-158: the response arrives
GenerateEmbeddingsResolve ==
    /\ fn = "generateEmbeddings" /\ fpc = "await"
    /\ \E r \in EmbedResponses :
          /\ resp' = r
          /\ IF AxiosData(r).ok
             THEN /\ ret' = AxiosData(r).v
                  /\ UNCHANGED log
             ELSE /\ ret' = Null
                  /\ log' = Append(log, "Error generating embeddings:")
    /\ inflight' = inflight \ {"embed"}
    /\ fpc' = "returned"
    /\ UNCHANGED <<fn, arg, eff, req, calls, prompts>>
    /\ UNCHANGED mainVars

\* lines 45-51: the template, the placeholders as single pieces
SystemPrompt == <<"*DOCUMENT:* ", "{document}", "---*QUESTION:* ", "{question}">>

\* String.prototype.replace(placeholder, by): the first occurrence only
RECURSIVE Replace(_, _, _)
Replace(s, placeholder, by) ==
    IF s = <<>> THEN <<>>
    ELSE IF Head(s) = placeholder THEN by \o Tail(s)
    ELSE <<Head(s)>> \o Replace(Tail(s), placeholder, by)

\* String(v) with undefined rendered as nothing
ToTextBlankUndefined(v) ==
    IF v.t = "undefined" THEN <<>>
    ELSE IF v.t = "str" THEN v.s
    ELSE Stringify(v).s

\* a replacement value as replace() sees it: String(v)
ToText(v) ==
    IF v.t = "undefined" THEN <<"u", "n", "d", "e", "f", "i", "n", "e", "d">>
    ELSE IF v.t = "str" THEN v.s
    ELSE Stringify(v).s

\* line 163: the template with JSON.stringify(document) and the question filled in
FormattedPrompt(document, question) ==
    Replace(Replace(SystemPrompt, "{document}", ToText(Stringify(document))),
            "{question}", ToText(question))

\* generateGeminiResponse, lines 161-164: the prompt is built and submitted
GenerateGeminiResponseEnter ==
    /\ fn = "generateGeminiResponse" /\ fpc = "entry"
    /\ LET document == Param(arg, 1, Undefined)
           question == Param(arg, 2, Undefined)
       IN  /\ eff' = Str(FormattedPrompt(document, question))
           /\ req' = Str(FormattedPrompt(document, question))
    /\ fpc' = "await"
    /\ inflight' = inflight \cup {"gemini"}
    /\ calls' = [calls EXCEPT !["gemini"] = @ + 1]
    /\ UNCHANGED <<fn, arg, ret, resp, prompts, log>>
    /\ UNCHANGED mainVars

\* lines 164-169: generateContent rejects on a network or HTTP error; otherwise
\* result.response.text() is the answer
GeminiText(r) ==
    IF r.kind = "error" \/ IsHttpError(r.status) THEN [ok |-> FALSE, v |-> Undefined]
    ELSE [ok |-> TRUE, v |-> Str(r.body)]

\* generateGeminiResponse, lines 164-169: the answer arrives
GenerateGeminiResponseResolve ==
    /\ fn = "generateGeminiResponse" /\ fpc = "await"
    /\ \E r \in GeminiResponses :
          /\ resp' = r
          /\ IF GeminiText(r).ok
             THEN /\ ret' = GeminiText(r).v
                  /\ UNCHANGED log
             ELSE /\ ret' = Null
                  /\ log' = Append(log, "Error generating Gemini response:")
    /\ inflight' = inflight \ {"gemini"}
    /\ fpc' = "returned"
    /\ UNCHANGED <<fn, arg, eff, req, calls, prompts>>
    /\ UNCHANGED mainVars

StageStep ==
    \/ FetchContentEnter
    \/ FetchContentResolve
    \/ SegmentTextEnter
    \/ SegmentTextResolve
    \/ GenerateEmbeddingsEnter
    \/ GenerateEmbeddingsResolve
    \/ GenerateGeminiResponseEnter
    \/ GenerateGeminiResponseResolve


(***************************************************************************)
(* main, lines 172-212.  One step per await of a stage function: the step  *)
(* takes the stage's result, decides, and invokes the next stage.          *)
(***************************************************************************)
\* a call f(args): a fresh activation of the stage function
Invoke(f, args) ==
    /\ fn' = f
    /\ arg' = args
    /\ fpc' = "entry"
    /\ eff' = Undefined
    /\ ret' = Undefined
    /\ resp' = NoResp
    /\ req' = Undefined
    /\ prompts' = 0
    /\ invoked' = [invoked EXCEPT ![f] = @ + 1]
    /\ UNCHANGED <<inflight, calls>>

\* a missing await before generateEmbeddings: main goes on while the call is pending
AwaitedButEmbeddings(f) ==
    f = "generateEmbeddings" \/ (fn = f /\ fpc \in {"returned", "thrown"})

\* await f(...), lines 178, 187, 197, 202: main resumes when f has settled
Awaited(f) == fn = f /\ fpc \in {"returned", "thrown"}

\* the check of line 179 comparing with null only
FetchFailedNullOnly(v) == v = Null

\* the check of line 179 left out
FetchFailedNever(v) == FALSE

\* line 179: if (!fetchedContent)
FetchFailed(v) == Falsy(v)

\* the check of line 188 comparing with null only
SegmentFailedNullOnly(v) == v = Null

\* line 188: if (!segmentedContent)
SegmentFailed(v) == Falsy(v)

\* the check of line 203 comparing with undefined only
AnswerOkDefined(v) == v # Undefined

\* success that also asks for embeddings
AnswerOkNeedsEmbeddings(v) == ~Falsy(v) /\ ~Falsy(embeddings)

\* line 203: if (geminiResponse)
AnswerOk(v) == ~Falsy(v)

\* main rejects: an exception of a stage function is not caught in main (line 214
\* prints it); the readline interface stays open
MainRejects ==
    /\ pc' = "crashed"
    /\ UNCHANGED <<url, fetchedContent, segmentedContent, embeddings, geminiResponse,
                   rlOpen, invoked, fn, arg, fpc, eff, ret, resp, req, inflight, calls,
                   prompts, log>>

\* lines 173-178: the url is read and fetchContent(url) is called
MainStart ==
    /\ pc = "start"
    /\ \E line \in Urls :
          /\ url' = Str(line)
          /\ Invoke("fetchContent", <<Str(line)>>)
    /\ pc' = "awaitFetch"
    /\ log' = Append(log, "--- Step 1: Fetching Content ---")
    /\ UNCHANGED <<fetchedContent, segmentedContent, embeddings, geminiResponse, rlOpen>>

\* lines 178-187: fetchContent's result is checked and segmentText is called
MainAfterFetch ==
    /\ pc = "awaitFetch" /\ Awaited("fetchContent")
    /\ IF fpc = "thrown" THEN MainRejects
       ELSE /\ fetchedContent' = ret
            /\ IF FetchFailed(ret)
               THEN /\ log' = Append(log, "Content fetching failed. Exiting.")
                    /\ rlOpen' = FALSE
                    /\ pc' = "failed"
                    /\ UNCHANGED <<fn, arg, fpc, eff, ret, resp, req, prompts, invoked,
                                   inflight, calls>>
               ELSE /\ log' = Append(log, "--- Step 2: Segmenting Text ---")
                    /\ Invoke("segmentText", <<ret>>)
                    /\ pc' = "awaitSegment"
                    /\ UNCHANGED rlOpen
            /\ UNCHANGED <<url, segmentedContent, embeddings, geminiResponse>>

\* the chunks of a segmentation result passed as separate inputs
EmbeddingInputsPerChunk(v) ==
    IF v.x = "chunks2" THEN Arr(<<AsElem(Str(v.s)), AsElem(Str(v.s))>>)
    ELSE Arr(<<AsElem(v)>>)

\* line 196: const embeddingInputs = [segmentedContent]
EmbeddingInputs(v) == Arr(<<AsElem(v)>>)

\* lines 187-197: segmentText's result is checked and generateEmbeddings is called
MainAfterSegment ==
    /\ pc = "awaitSegment" /\ Awaited("segmentText")
    /\ IF fpc = "thrown" THEN MainRejects
       ELSE /\ segmentedContent' = ret
            /\ IF SegmentFailed(ret)
               THEN /\ log' = Append(log, "Text segmentation failed. Exiting.")
                    /\ rlOpen' = FALSE
                    /\ pc' = "failed"
                    /\ UNCHANGED <<fn, arg, fpc, eff, ret, resp, req, prompts, invoked,
                                   inflight, calls>>
               ELSE /\ log' = Append(log, "--- Step 3: Generating Embeddings ---")
                    /\ Invoke("generateEmbeddings", <<EmbeddingInputs(ret)>>)
                    /\ pc' = "awaitEmbed"
                    /\ UNCHANGED rlOpen
            /\ UNCHANGED <<url, fetchedContent, embeddings, geminiResponse>>

\* lines 197-202: the embeddings are kept, the question is read and
\* generateGeminiResponse(segmentedContent, userQuestion) is called
MainAfterEmbed ==
    /\ pc = "awaitEmbed" /\ Awaited("generateEmbeddings")
    /\ IF fpc = "thrown" THEN MainRejects
       ELSE /\ embeddings' = ret
            /\ log' = Append(log, "--- Step 4: Generating AI Response ---")
            /\ \E userQuestion \in Questions :
                  Invoke("generateGeminiResponse", <<segmentedContent, Str(userQuestion)>>)
            /\ pc' = "awaitGemini"
            /\ UNCHANGED <<url, fetchedContent, segmentedContent, geminiResponse, rlOpen>>

\* lines 202-211: the answer is printed, or the error; the readline interface is closed
MainAfterGemini ==
    /\ pc = "awaitGemini" /\ Awaited("generateGeminiResponse")
    /\ IF fpc = "thrown" THEN MainRejects
       ELSE /\ geminiResponse' = ret
            /\ IF AnswerOk(ret)
               THEN /\ log' = log \o <<"--- Gemini's Response ---", "<answer>",
                                       "Workflow completed successfully!">>
                    /\ pc' = "done"
               ELSE /\ log' = Append(log,
                              "Workflow encountered an error during AI response generation.")
                    /\ pc' = "failed"
            /\ rlOpen' = FALSE
            /\ UNCHANGED <<url, fetchedContent, segmentedContent, embeddings, invoked,
                           fn, arg, fpc, eff, ret, resp, req, inflight, calls, prompts>>

NoCalls == [s \in Services |-> 0]
NoStage == [f \in Stages |-> 0]

\* main is entered: nothing fetched, no stage function active
Init ==
    /\ pc = "start"
    /\ url = Undefined /\ fetchedContent = Undefined /\ segmentedContent = Undefined
    /\ embeddings = Undefined /\ geminiResponse = Undefined
    /\ rlOpen = TRUE
    /\ fn = "none" /\ arg = <<>> /\ fpc = "idle"
    /\ eff = Undefined /\ ret = Undefined /\ resp = NoResp /\ req = Undefined
    /\ inflight = {} /\ calls = NoCalls /\ prompts = 0
    /\ invoked = NoStage
    /\ log = <<>>

Next ==
    \/ MainStart
    \/ MainAfterFetch
    \/ MainAfterSegment
    \/ MainAfterEmbed
    \/ MainAfterGemini
    \/ StageStep

Spec == Init /\ [][Next]_vars

(***************************************************************************)
(* A stage function called directly, with any argument.                    *)
(***************************************************************************)
RECURSIVE Tuples(_, _)
Tuples(S, n) ==
    IF n = 0 THEN {<<>>}
    ELSE LET shorter == Tuples(S, n - 1)
         IN  shorter \cup {Append(s, e) : s \in shorter, e \in S}

OddValues == {Undefined, Null, Num(<<"0">>), Num(<<"5">>), True, EmptyObj}

MaxExcess == 1      \* long inputs exceed the cap of 1000 characters by up to this much

Repeat(c, n) == [i \in 1..n |-> c]

\* inputs around the cap: a string, a text field and a serialization that reach it
LongTexts == {Repeat("a", n) : n \in (EmbeddingCap - 1)..(EmbeddingCap + MaxExcess)}
LongItems ==
    {AsElem(Str(s)) : s \in LongTexts}
        \cup {AsElem(TextObj(s)) : s \in LongTexts}
        \cup {AsElem(ChunksObj(s)) : s \in LongTexts}

DirectArgs(f) ==
    CASE f = "fetchContent" ->
            {<<>>} \cup {<<v>> : v \in {Str(u) : u \in Urls} \cup OddValues}
      [] f = "segmentText" ->
            {<<>>} \cup {<<v>> : v \in JsonValues \cup {Str(s) : s \in TextBodies}
                                        \cup {Undefined}}
      [] f = "generateEmbeddings" ->
            {<<>>, <<Undefined>>, <<Null>>, <<Num(<<"5">>)>>}
                \cup {<<Arr(items)>> :
                        items \in Tuples({AsElem(v) : v \in JsonValues \cup {Undefined}},
                                         MaxInputs)}
                \cup {<<Arr(<<e>>)>> : e \in LongItems}
                \cup {<<Arr(<<e, AsElem(Str(<<"a">>))>>)>> : e \in LongItems}
      [] f = "generateGeminiResponse" ->
            {<<>>} \cup {<<d, Str(q)>> : d \in JsonValues \cup {Undefined}, q \in Questions}

StageInit ==
    /\ pc = "direct"
    /\ url = Undefined /\ fetchedContent = Undefined /\ segmentedContent = Undefined
    /\ embeddings = Undefined /\ geminiResponse = Undefined
    /\ rlOpen = FALSE
    /\ fn \in Stages /\ arg \in DirectArgs(fn) /\ fpc = "entry"
    /\ eff = Undefined /\ ret = Undefined /\ resp = NoResp /\ req = Undefined
    /\ inflight = {} /\ calls = NoCalls /\ prompts = 0
    /\ invoked = [f \in Stages |-> IF f = fn THEN 1 ELSE 0]
    /\ log = <<>>

StageNext == StageStep

StageSpec == StageInit /\ [][StageNext]_vars


(***************************************************************************)
(* Properties.                                                             *)
(***************************************************************************)
LastLog == IF log = <<>> THEN "" ELSE log[Len(log)]

\* the first argument of the active stage function, with undefined for a missing one
Given == Param(arg, 1, Undefined)

Terminal == {"done", "failed", "crashed"}

\* C1: a null result of fetchContent or of segmentText puts main in Failed at
\* once: no later stage function is invoked, no later external call is issued,
\* and the stage's failure message is the last line printed.
C1_NullHaltsPipeline ==
    /\ fetchedContent = Null =>
          /\ pc = "failed"
          /\ LastLog = "Content fetching failed. Exiting."
          /\ \A f \in Stages \ {"fetchContent"} : invoked[f] = 0
          /\ \A s \in Services \ {"extract"} : calls[s] = 0
          /\ inflight = {}
    /\ segmentedContent = Null =>
          /\ pc = "failed"
          /\ LastLog = "Text segmentation failed. Exiting."
          /\ invoked["generateEmbeddings"] = 0
          /\ invoked["generateGeminiResponse"] = 0
          /\ calls["embed"] = 0 /\ calls["gemini"] = 0
          /\ inflight = {}

\* the segmentation service was unreachable and main has stopped
C1_Witness ==
    /\ pc = "failed"
    /\ segmentedContent = Null
    /\ fn = "segmentText" /\ resp.kind = "error"

\* C2 as stated: with embeddings == null the answer stage is still invoked, and
\* every non-null answer ends the run in Done.
C2_Original ==
    /\ (pc # "crashed" /\ embeddings = Null) => invoked["generateGeminiResponse"] = 1
    /\ (embeddings = Null /\ geminiResponse \notin {Undefined, Null}) =>
          pc = "done" /\ LastLog = "Workflow completed successfully!"

\* C2, amended: with embeddings == null the answer stage is still invoked, and
\* every non-empty answer ends the run in Done.
C2_EmbeddingFailureNotFatal ==
    /\ (pc # "crashed" /\ embeddings = Null) => invoked["generateGeminiResponse"] = 1
    /\ (embeddings = Null /\ IsString(geminiResponse) /\ geminiResponse.s # <<>>) =>
          pc = "done" /\ LastLog = "Workflow completed successfully!"

\* the embedding service failed, the answer came, the run is Done
C2_Witness ==
    /\ pc = "done"
    /\ embeddings = Null
    /\ IsString(geminiResponse) /\ geminiResponse.s # <<>>

\* C3: no stage function throws past its own boundary, whatever its argument
\* and whatever the external call's outcome.
C3_NeverThrows == fpc # "thrown"

\* C4 as stated: a url that does not begin with "http" makes fetchContent
\* return null without a network call.
C4_Original ==
    (/\ fn = "fetchContent" /\ fpc # "entry"
     /\ IsString(Given) /\ ~StartsWith(Given.s, HttpPrefix)) =>
        fpc = "returned" /\ ret = Null /\ calls["extract"] = 0

\* C4, amended: the url fetchContent checks is the argument, or the line of its
\* own prompt when the argument is empty or missing; when that url does not
\* begin with "http", fetchContent returns null without a network call.
C4_RejectedUrlNoCall ==
    (/\ fn = "fetchContent" /\ fpc # "entry"
     /\ IsString(eff) /\ ~StartsWith(eff.s, HttpPrefix)) =>
        fpc = "returned" /\ ret = Null /\ calls["extract"] = 0 /\ inflight = {}

\* a non-empty url without the prefix was rejected
C4_Witness ==
    /\ fn = "fetchContent" /\ fpc = "returned"
    /\ Given = Str(<<"h", "t", "t">>)
    /\ ret = Null /\ calls["extract"] = 0 /\ prompts = 0

\* the string form of a content (non-string content serialized first) is blank
BlankForm(v) ==
    IF IsString(v) THEN Trim(v.s) = <<>>
    ELSE IsString(Stringify(v)) /\ Trim(Stringify(v).s) = <<>>

\* C5 as stated: a content whose string form is empty or whitespace-only makes
\* segmentText return null without a network call.
C5_Original ==
    (fn = "segmentText" /\ fpc # "entry" /\ BlankForm(Given)) =>
        fpc = "returned" /\ ret = Null /\ calls["segment"] = 0

\* C5, amended: the content segmentText checks is the argument, or the line of
\* its own prompt when the argument is falsy; when the string form of that
\* content is empty or whitespace-only, segmentText returns null without a
\* network call.
C5_BlankContentNoCall ==
    (/\ fn = "segmentText" /\ fpc # "entry"
     /\ IsString(eff) /\ Trim(eff.s) = <<>>) =>
        fpc = "returned" /\ ret = Null /\ calls["segment"] = 0 /\ inflight = {}

\* a whitespace-only content was rejected
C5_Witness ==
    /\ fn = "segmentText" /\ fpc = "returned"
    /\ Given = Str(<<" ">>)
    /\ ret = Null /\ calls["segment"] = 0 /\ prompts = 0

\* C6: an empty or missing inputs array makes generateEmbeddings return null
\* without a network call.
C6_EmptyInputsNoCall ==
    (/\ fn = "generateEmbeddings" /\ fpc # "entry"
     /\ (Given \in {Undefined, Null} \/ (Given.t = "arr" /\ Given.a = <<>>))) =>
        fpc = "returned" /\ ret = Null /\ calls["embed"] = 0 /\ inflight = {}

\* generateEmbeddings([]) has returned null
C6_Witness ==
    /\ fn = "generateEmbeddings" /\ fpc = "returned"
    /\ arg = <<Arr(<<>>)>>
    /\ ret = Null /\ calls["embed"] = 0

\* the response of the active stage function's call is an upstream failure: no
\* response, an HTTP error status, or a body that does not parse where the
\* stage parses JSON
UpstreamFailure ==
    \/ resp.kind = "error"
    \/ resp.kind = "response" /\ IsHttpError(resp.status)
    \/ /\ resp.kind = "response"
       /\ fn = "segmentText" \/ (fn = "fetchContent" /\ resp.ctype = "json")
       /\ ~ParseJson(resp.body).ok

\* C7: every upstream failure of an external service makes the stage return
\* null, and main does not go on with the error response as a stage's result.
C7_UpstreamFailureIsNull ==
    (fpc = "returned" /\ UpstreamFailure) => ret = Null

StageRank(f) ==
    CASE f = "fetchContent" -> 1
      [] f = "segmentText" -> 2
      [] f = "generateEmbeddings" -> 3
      [] f = "generateGeminiResponse" -> 4

\* the pipeline state of main's position, in the order of the states
PipelineRank(p) ==
    CASE p \in {"start", "awaitFetch"} -> 0     \* Start
      [] p = "awaitSegment" -> 1                \* ContentFetched
      [] p = "awaitEmbed" -> 2                  \* Segmented
      [] p = "awaitGemini" -> 3                 \* Embedded
      [] OTHER -> 5                             \* Done, Failed (and a rejected main)

\* C8: main only moves forward; the stage functions are invoked in the order
\* fetch, segment, embed, answer, each at most once, a stage only after every
\* earlier one has returned, and none once main has ended.
C8_ForwardOnly ==
    [][/\ PipelineRank(pc') >= PipelineRank(pc)
       /\ \A f \in Stages :
             /\ invoked'[f] <= 1
             /\ invoked'[f] > invoked[f] =>
                   /\ \A g \in Stages :
                         invoked[g] = (IF StageRank(g) < StageRank(f) THEN 1 ELSE 0)
                   /\ StageRank(f) > 1 =>
                         StageRank(fn) = StageRank(f) - 1 /\ fpc = "returned"
                   /\ inflight = {}
       /\ pc \in Terminal => UNCHANGED <<pc, invoked, calls, inflight, fn, fpc>>
      ]_vars

\* a run that went through the four stages in order
C8_Witness ==
    /\ pc = "done"
    /\ \A f \in Stages : invoked[f] = 1
    /\ \A s \in Services : calls[s] = 1

\* C9: at most one external call is in flight at any moment of a run.
C9_OneCallInFlight ==
    /\ Cardinality(inflight) <= 1
    /\ inflight # {} => fpc = "await"

\* the generative call is in flight, after the three other calls have resolved
C9_Witness ==
    /\ inflight = {"gemini"}
    /\ calls["extract"] = 1 /\ calls["segment"] = 1 /\ calls["embed"] = 1

Prefix(s, n) == [k \in 1..(IF Len(s) < n THEN Len(s) ELSE n) |-> s[k]]

\* generateEmbeddings has normalized its inputs and issued its request
EmbeddingRequested ==
    fn = "generateEmbeddings" /\ fpc \in {"await", "returned"} /\ calls["embed"] = 1

\* C11: the normalisation takes a string as it is, an object that carries a
\* text field by that field (whatever the field's value, never by the
\* serialization of the object), and only any other value by its serialization,
\* each truncated.
C11_TextFieldNeverSerialized ==
    EmbeddingRequested =>
        \A i \in 1..Len(Given.a) :
            LET item == Given.a[i]
                out == eff.a[i].s
            IN  /\ item.t = "str" => out = Prefix(item.s, EmbeddingCap)
                /\ (item.t = "obj" /\ item.x = "str") => out = Prefix(item.s, EmbeddingCap)
                /\ (item.t = "obj" /\ item.x \in {"str", "num", "null"}) =>
                      out # Prefix(StringifyElem(item), EmbeddingCap)
                /\ (item.t # "str" /\ ~(item.t = "obj" /\ item.x \in {"str", "num", "null"})) =>
                      out = Prefix(StringifyElem(item), EmbeddingCap)

\* the text the normalisation takes of an item: the string, the text field, or
\* the serialization
SourceText(item) ==
    IF item.t = "str" THEN item.s
    ELSE IF HasText(item) THEN TextField(item).s
    ELSE StringifyElem(item)

\* C12: every normalized text is at most 1000 characters long and is exactly
\* the prefix of that length of the input's text; truncating it again changes
\* nothing.
C12_TruncatedPrefix ==
    EmbeddingRequested =>
        \A i \in 1..Len(Given.a) :
            LET src == SourceText(Given.a[i])
                out == eff.a[i].s
            IN  /\ Len(out) <= EmbeddingCap
                /\ Len(out) = (IF Len(src) < EmbeddingCap THEN Len(src) ELSE EmbeddingCap)
                /\ \A k \in 1..Len(out) : out[k] = src[k]
                /\ Substring0(out, EmbeddingCap) = out

\* a string longer than the cap was cut to the cap
C12_Witness ==
    /\ EmbeddingRequested
    /\ Given.a[1] = AsElem(Str(Repeat("a", EmbeddingCap + 1)))
    /\ Len(eff.a[1].s) = EmbeddingCap

\* C13: the embedding request carries one entry per input, entry i being the
\* normalized form of input i.
C13_RequestInOrder ==
    EmbeddingRequested =>
        /\ req.t = "arr"
        /\ Len(req.a) = Len(Given.a)
        /\ \A i \in 1..Len(Given.a) :
              req.a[i] = AsElem(TextObj(NormalizeItem(Given.a[i])))

\* a request for two inputs that differ
C13_Witness ==
    /\ EmbeddingRequested
    /\ Len(Given.a) = 2 /\ Len(req.a) = 2
    /\ req.a[1] # req.a[2]

\* C14: fetchContent parses a response by the one branch its declared content
\* type selects: application/json as JSON, text/html by the text of its body,
\* anything else as raw text; a JSON-typed response is never parsed as HTML and
\* an HTML-typed one never as JSON.
C14_OneParsingBranch ==
    (/\ fn = "fetchContent" /\ fpc = "returned"
     /\ resp.kind = "response" /\ resp.ctype # "missing") =>
        /\ resp.ctype = "json" =>
              ret = (IF ParseJson(resp.body).ok THEN ParseJson(resp.body).v ELSE Null)
        /\ resp.ctype = "html" => ret = Str(BodyTextContent(resp.body))
        /\ resp.ctype = "other" => ret = Str(resp.body)

\* an HTML-typed response whose body is JSON text was returned as text, and a
\* body with markup lost it
C14_Witness ==
    /\ fn = "fetchContent" /\ fpc = "returned"
    /\ resp.ctype = "html"
    /\ \/ resp.body = Stringify(TextObj(<<"a">>)).s /\ ret = Str(resp.body)
       \/ resp.body = <<"<p>">> /\ ret = Str(<<>>)

FetchFailureMessage == "Content fetching failed. Exiting."
SegmentFailureMessage == "Text segmentation failed. Exiting."
AnswerFailureMessage == "Workflow encountered an error during AI response generation."
SuccessMessage == "Workflow completed successfully!"

\* the lines main prints when it ends
Summaries ==
    {SuccessMessage, FetchFailureMessage, SegmentFailureMessage, AnswerFailureMessage}

SummaryCount == Len(SelectSeq(log, LAMBDA m : m \in Summaries))

Printed(m) == \E i \in 1..Len(log) : log[i] = m

\* C15 as stated: a run that has ended has printed exactly one summary; the
\* success line is printed exactly when the run is Done with a non-null
\* answer; a run that ended in Failed has printed a message naming the failed
\* stage together with the "workflow encountered an error" notice.
C15_Original ==
    /\ pc \in Terminal => SummaryCount = 1
    /\ Printed(SuccessMessage) <=> (pc = "done" /\ geminiResponse # Null)
    /\ pc = "failed" =>
          /\ \/ Printed(FetchFailureMessage)
             \/ Printed(SegmentFailureMessage)
             \/ Printed(AnswerFailureMessage)
          /\ Printed(AnswerFailureMessage)

\* C15, amended: a run that ends in Done or Failed has printed exactly one
\* summary, its last line: the success line exactly when the run is Done (the
\* answer is then non-empty), and in Failed the one message of the stage that
\* failed, of which only the answer stage's is the "workflow encountered an
\* error" notice; a run that ends because a stage function threw has printed
\* no summary.
C15_OneSummaryPerOutcome ==
    /\ Printed(SuccessMessage) <=> pc = "done"
    /\ pc = "done" =>
          SummaryCount = 1 /\ LastLog = SuccessMessage /\ ~Falsy(geminiResponse)
    /\ pc = "failed" =>
          /\ SummaryCount = 1
          /\ LastLog = (IF Falsy(fetchedContent) THEN FetchFailureMessage
                        ELSE IF Falsy(segmentedContent) THEN SegmentFailureMessage
                        ELSE AnswerFailureMessage)
          /\ LastLog = AnswerFailureMessage => Falsy(geminiResponse)
    /\ pc = "crashed" => SummaryCount = 0
    /\ pc \notin Terminal => SummaryCount = 0

\* a run that failed in the fetch stage: its one summary names the stage and
\* is not the workflow notice
C15_Witness ==
    /\ pc = "failed"
    /\ log = <<"--- Step 1: Fetching Content ---", "Invalid URL.", FetchFailureMessage>>

\* fetchContent is past its entry code (the prompt, the scheme check)
FetchEntered == fn = "fetchContent" /\ fpc # "entry"

\* C16 as stated: an empty url typed at main's prompt reaches fetchContent
\* unchanged, and fetchContent returns null without a network call and without
\* reading a replacement; the run ends in Failed.
C16_Original ==
    url = Str(<<>>) =>
        /\ fn = "fetchContent" => arg = <<Str(<<>>)>>
        /\ FetchEntered =>
              prompts = 0 /\ fpc = "returned" /\ ret = Null /\ calls["extract"] = 0
        /\ pc \notin {"start", "awaitFetch"} => pc = "failed"

\* C16, amended: an empty url typed at main's prompt reaches fetchContent
\* unchanged; fetchContent reads one replacement line from its own prompt and
\* validates that line: when it does not begin with "http", fetchContent
\* returns null without a network call and the run ends in Failed; when it
\* does, the content is requested for it.
C16_EmptyUrlPromptedAgain ==
    url = Str(<<>>) =>
        /\ fn = "fetchContent" => arg = <<Str(<<>>)>>
        /\ FetchEntered => prompts = 1 /\ IsString(eff)
        /\ (FetchEntered /\ ~StartsWith(eff.s, HttpPrefix)) =>
              fpc = "returned" /\ ret = Null /\ calls["extract"] = 0
        /\ (FetchEntered /\ StartsWith(eff.s, HttpPrefix)) =>
              calls["extract"] = 1 /\ req = eff
        /\ (pc \notin {"start", "awaitFetch"} /\ calls["extract"] = 0) =>
              pc = "failed" /\ LastLog = "Content fetching failed. Exiting."

\* the url was empty, the replacement was accepted and its content requested
C16_Witness ==
    /\ url = Str(<<>>)
    /\ fn = "fetchContent" /\ fpc = "await"
    /\ prompts = 1 /\ calls["extract"] = 1
    /\ req = Str(HttpPrefix)

\* JSON text of a falsy document as the prompt shows it
FalsyText(v) ==
    CASE v.t = "undefined" -> <<"u", "n", "d", "e", "f", "i", "n", "e", "d">>
      [] v.t = "null" -> <<"n", "u", "l", "l">>
      [] v.t = "false" -> <<"f", "a", "l", "s", "e">>
      [] v.t = "num" -> <<"0">>
      [] v.t = "str" -> <<"\"", "\"">>

\* C17: generateGeminiResponse called with a falsy or undefined document still
\* fills the template with the serialized value ("undefined" for undefined),
\* issues exactly one call to the generative service and returns the service's
\* text, or null on error.
C17_FalsyDocumentStillSubmitted ==
    (fn = "generateGeminiResponse" /\ Falsy(Given)) =>
        /\ fpc = "entry" => calls["gemini"] = 0
        /\ fpc # "entry" =>
              /\ calls["gemini"] = 1
              /\ IsString(req)
              /\ LET opening == <<"*DOCUMENT:* ">> \o FalsyText(Given)
                                    \o <<"---*QUESTION:* ">>
                 IN  Prefix(req.s, Len(opening)) = opening
        /\ fpc # "thrown"
        /\ fpc = "returned" =>
              IF resp.kind = "error" \/ resp.status # 200
              THEN ret = Null
              ELSE ret = Str(resp.body)

\* an undefined document was submitted and the service's text came back
C17_Witness ==
    /\ fn = "generateGeminiResponse" /\ Given = Undefined
    /\ fpc = "returned" /\ calls["gemini"] = 1
    /\ resp.kind # "error" /\ resp.status = 200
    /\ ret = Str(resp.body) /\ ret.s # <<>>

\* C18: main tests results by truthiness: a fetch that succeeds with empty
\* content ends the run in Failed with the fetch failure message and
\* segmentText is never invoked; an empty answer of the generative service is
\* reported as an error, not as Done.
C18_EmptyResultIsFailure ==
    /\ fetchedContent = Str(<<>>) =>
          /\ pc = "failed"
          /\ LastLog = FetchFailureMessage
          /\ invoked["segmentText"] = 0
          /\ calls["segment"] = 0
    /\ geminiResponse = Str(<<>>) =>
          /\ pc = "failed"
          /\ LastLog = AnswerFailureMessage
          /\ ~Printed(SuccessMessage)

\* the extraction service answered 200 with a page that has no text, and the
\* run ended in Failed
C18_Witness ==
    /\ fetchedContent = Str(<<>>)
    /\ resp.kind = "response" /\ resp.status = 200
    /\ calls["extract"] = 1
    /\ pc = "failed"

\* C19: a run of main that can take no further step has ended in Done or in
\* Failed, and the readline interface opened at the start of main is closed.
C19_EndsClosed ==
    (~ENABLED Next) => (pc \in {"done", "failed"} /\ ~rlOpen)

\* the number of chunks a segmentation result carries
ChunkCount(v) ==
    IF v.t = "obj" /\ v.x = "chunks" THEN 1
    ELSE IF v.t = "obj" /\ v.x = "chunks2" THEN 2
    ELSE 0

\* what main hands to the embedding stage and to the answer stage
WholeResultPassed ==
    /\ fn = "generateEmbeddings" =>
          /\ Len(arg) = 1 /\ arg[1].t = "arr"
          /\ Len(arg[1].a) = 1
          /\ AsVal(arg[1].a[1]) = segmentedContent
          /\ segmentedContent \notin {Null, Undefined}
          /\ ~Printed("No inputs provided for embedding generation.")
          /\ calls["embed"] = 1 => (req.t = "arr" /\ Len(req.a) = 1)
    /\ fn = "generateGeminiResponse" =>
          /\ invoked["generateEmbeddings"] = 1
          /\ Given = segmentedContent
          /\ segmentedContent \notin {Null, Undefined}
          /\ ~Printed("No inputs provided for embedding generation.")

\* C20: main calls generateEmbeddings with an array of exactly one element,
\* the whole non-null segmentation result, so the empty-input rejection never
\* fires from main and the embedding request has exactly one entry whatever
\* the number of chunks; the embedding stage leaves the segmentation result
\* unchanged, and that result is the document of generateGeminiResponse.
C20_OneInputWholeResult ==
    /\ []WholeResultPassed
    /\ [][pc \notin {"start", "awaitFetch", "awaitSegment"} =>
              segmentedContent' = segmentedContent]_vars

\* a result of two chunks went out as one embedding input and then became the
\* document of the answer stage
C20_Witness ==
    /\ ChunkCount(segmentedContent) = 2
    /\ calls["embed"] = 1
    /\ fn = "generateGeminiResponse" /\ Given = segmentedContent

====
